---- MODULE Spec2Model ----
(***************************************************************************)
(* Tool-execution control plane of llm-council-enhanced:                   *)
(* backend/tools/router.py (ToolRouter and the module-level _TOOL_CACHE),  *)
(* backend/tools/registry.py (ToolRegistry), backend/tools/parser.py       *)
(* (ToolParser) and backend/tools/types.py.                                *)
(*                                                                         *)
(* One execute_tool_calls coroutine per run id.  A coroutine is atomic     *)
(* between two awaits; the only await of the loop is the handler           *)
(* invocation (router.py:79/81), so each loop iteration is one step up to  *)
(* that await and one step after it.  The cache is shared by all runs.     *)
(***************************************************************************)
EXTENDS Integers, Sequences, FiniteSets, TLC

(***************************************************************************)
(* Bounds of the model                                                     *)
(***************************************************************************)
MaxCalls == 3            \* longest input list of one sequential run
MaxBudget == 2           \* largest max_calls_per_run
SmallLen == 100          \* length of str(data) of a short handler payload
BigLen == 2500           \* length of str(data) of a long handler payload
SmallEvidenceCap == 200  \* a max_evidence_chars the payloads can reach
TickStep == 300          \* seconds by which the clock advances at once
MaxTime == 600           \* the clock stops advancing here

(***************************************************************************)
(* Program constants                                                       *)
(***************************************************************************)
DefaultMaxEvidenceChars == 10000
DefaultTTL == 300
SearchTTL == 600
TruncateAt == 2000
TruncMarkerLen == 15

RunIds == {"r1", "r2"}
SeqRuns == {"r1"}

ToolNames == {"web.search", "web.fetch", "finance.quote"}

\* ToolPriority = Literal["high", "normal", "low"]
Priorities == {"high", "normal", "low"}

\* ToolRegistry._implementations after backend/tools/definitions/web.py ran
Implementations == {"web.search", "web.fetch"}

\* "search" in call.name
ContainsSearch(name) == name \in {"web.search"}

(***************************************************************************)
(* Argument maps: one key "q"; the value is a string or a list.            *)
(***************************************************************************)
StrValues == {"A"}
ListValues == {"[A]"}
ArgMaps == [{"q"} -> StrValues \cup ListValues]
HashableArgMaps == [{"q"} -> StrValues]

\* hash() of an argument value: lists are unhashable
Hashable(v) == v \notin ListValues

\* frozenset(call.arguments.items()) raises TypeError on an unhashable value
KeyRaises(call) == \E k \in DOMAIN call.arguments : ~Hashable(call.arguments[k])

\* key = (call.name, frozenset(call.arguments.items()))
CacheKey(call) ==
    <<call.name, {<<k, call.arguments[k]>> : k \in DOMAIN call.arguments}>>

VARIABLES
    cache,                 \* _TOOL_CACHE: key -> [res, expire_at]
    now,                   \* datetime.now(), in seconds
    pc,                    \* per run: "idle", "loop", "await", "returned"
    cfg,                   \* per run: the ToolRouter's configuration
    calls,                 \* per run: the input list of ToolCall
    sorted_calls,          \* per run: local sorted_calls
    idx,                   \* per run: position in sorted_calls of the current call
    usage_records,         \* per run: local usage_records
    limits_triggered,      \* per run: local limits_triggered (a list)
    calls_executed_count,  \* per run: local calls_executed_count
    total_evidence_chars,  \* per run: local total_evidence_chars
    audit,                 \* history, per run: how each record came about
    lookup,                \* history, per run: what the lookup of the awaited call saw
    success_log,           \* history: successful handler returns [run, call_id, key, at]
    _tools,                \* ToolRegistry._tools: name -> ToolDefinition
    _implementations,      \* ToolRegistry._implementations: name -> handler
    registered,            \* history: name -> the last registration made for it
    text,                  \* the Steward's raw response given to the parser
    decision,              \* what parse_steward_output returned for it
    parsed_data            \* per run: run_tool_steward_phase's parsed_data

vars == <<cache, now, pc, cfg, calls, sorted_calls, idx, usage_records, limits_triggered,
          calls_executed_count, total_evidence_chars, audit, lookup,
          success_log, _tools, _implementations, registered, text, decision,
          parsed_data>>

\* the catalog and its history
registryvars == <<_tools, _implementations, registered>>

\* the parser's input and output, and the decision a steward phase holds
parservars == <<text, decision, parsed_data>>

runvars == <<pc, cfg, calls, sorted_calls, idx, usage_records, limits_triggered,
             calls_executed_count, total_evidence_chars, audit, lookup>>

\* the router's state: the shared cache, the clock and every run
routervars == <<cache, now, runvars, success_log>>

(***************************************************************************)
(* ToolRegistry: two class-level dicts, written by the register decorator  *)
(***************************************************************************)
None == "None"

\* the callables given to the decorator: the two of definitions/web.py and
\* one more
Handlers == {"web_search", "web_fetch", "stub"}

\* the description, schemas and examples a registration comes with
Descriptions == {"d1", "d2"}

\* ToolDefinition(name=..., description=..., args_schema=..., ...)
ToolDefinition(name, description) == [name |-> name, description |-> description]

\* the None that get_definition returns
NoDefinition == [name |-> None, description |-> None]

\* d[k] = v on a dict
DictSet(d, k, v) == [x \in (DOMAIN d) \cup {k} |-> IF x = k THEN v ELSE d[x]]

\* cls._implementations.get(name)
get_implementation(name) ==
    IF name \in DOMAIN _implementations THEN _implementations[name] ELSE None

\* cls._tools.get(name)
get_definition(name) ==
    IF name \in DOMAIN _tools THEN _tools[name] ELSE NoDefinition

\* faulty variant: a name that is already registered keeps its handler
register_keeping_handler(name, description, func) ==
    /\ _tools' = DictSet(_tools, name, ToolDefinition(name, description))
    /\ _implementations' =
          IF name \in DOMAIN _implementations THEN _implementations
          ELSE DictSet(_implementations, name, func)

\* the decorator of register(name, description, ...) applied to func
register(name, description, func) ==
    /\ _tools' = DictSet(_tools, name, ToolDefinition(name, description))
    /\ _implementations' = DictSet(_implementations, name, func)

\* the handler definitions/web.py registers under a name
WebHandler(name) == IF name = "web.search" THEN "web_search" ELSE "web_fetch"

\* the registrations made when definitions/web.py is imported
WebRegistrations ==
    <<[name |-> "web.search", definition |-> ToolDefinition("web.search", "d1"),
       func |-> WebHandler("web.search")],
      [name |-> "web.fetch", definition |-> ToolDefinition("web.fetch", "d1"),
       func |-> WebHandler("web.fetch")]>>

(***************************************************************************)
(* Inputs of execute_tool_calls                                            *)
(***************************************************************************)
\* a ToolCall without its id (the id is a fresh uuid: here <<run, position>>)
\* the registered tools at every priority, the unregistered one and a call
\* with a list-valued argument at the default priority
CallSpecs ==
    [name : Implementations, arguments : HashableArgMaps, priority : Priorities]
    \cup [name : ToolNames \ Implementations, arguments : HashableArgMaps,
          priority : {"normal"}]
    \cup [name : {"web.search"}, arguments : ArgMaps \ HashableArgMaps,
          priority : {"normal"}]

SeqOfLen(S, n) == [1..n -> S]
SeqsUpTo(S, n) == UNION {SeqOfLen(S, k) : k \in 0..n}

\* allowlist None and [] are both falsy at router.py:58: modelled {}
AllowlistOptions == {{}, {"web.search"}}

Configs ==
    [allowlist : AllowlistOptions,
     max_calls_per_run : {0, 1, MaxBudget},
     max_evidence_chars : {SmallEvidenceCap, DefaultMaxEvidenceChars}]

InputLists == SeqsUpTo(CallSpecs, MaxCalls)

\* the interleaved runs: the same calls, all of one priority
ConcCallSpecs == {c \in CallSpecs : c.priority = "normal"}

\* no call, one call, or the same call twice in one run
ConcInputLists ==
    {<<>>} \cup {<<c>> : c \in ConcCallSpecs} \cup {<<c, c>> : c \in ConcCallSpecs}

ConcConfigs ==
    [allowlist : AllowlistOptions,
     max_calls_per_run : {1, MaxBudget},
     max_evidence_chars : {DefaultMaxEvidenceChars}]

WithIds(r, cs) ==
    [i \in 1..Len(cs) |->
        [id |-> <<r, i>>, name |-> cs[i].name, arguments |-> cs[i].arguments,
         priority |-> cs[i].priority]]

(***************************************************************************)
(* sorted(calls, key=lambda c: priority_map.get(c.priority, 1))            *)
(***************************************************************************)
priority_map(p) ==
    CASE p = "high" -> 0
      [] p = "normal" -> 1
      [] p = "low" -> 2
      [] OTHER -> 1

SortKey(c) == priority_map(c.priority)

RECURSIVE InsertUnstable(_, _)
\* faulty variant: x goes before the elements of equal key, so ties are reversed
InsertUnstable(x, s) ==
    IF s = <<>> THEN <<x>>
    ELSE IF SortKey(Head(s)) < SortKey(x)
         THEN <<Head(s)>> \o InsertUnstable(x, Tail(s))
         ELSE <<x>> \o s

RECURSIVE InsertStable(_, _)
\* x goes after every element whose key is <= its own: the sort is stable
InsertStable(x, s) ==
    IF s = <<>> THEN <<x>>
    ELSE IF SortKey(Head(s)) <= SortKey(x)
         THEN <<Head(s)>> \o InsertStable(x, Tail(s))
         ELSE <<x>> \o s

RECURSIVE SortInto(_, _)
SortInto(acc, rest) ==
    IF rest = <<>> THEN acc
    ELSE SortInto(InsertStable(Head(rest), acc), Tail(rest))

sorted(cs) == SortInto(<<>>, cs)

(***************************************************************************)
(* ToolResult and ToolUsageRecord                                          *)
(***************************************************************************)
\* a handler's ToolResult; data is kept as len(str(data)), 0 when data is falsy
ToolResult(id, ok, data_len, err, retryable) ==
    [id |-> id, ok |-> ok, data_len |-> data_len, error |-> err,
     retryable |-> retryable, cached |-> FALSE]

\* router.py:104-110
error_result(call) == ToolResult(call.id, FALSE, 0, "tool_error", TRUE)

\* faulty variant: the marker is appended to the whole text, nothing is cut
TruncatedMarkerOnly(data_len) ==
    IF data_len > TruncateAt THEN data_len + TruncMarkerLen ELSE data_len

\* raw_str = str(result.data) if result.data else ""; truncated above 2000:
\* if len(raw_str) > 2000: raw_str = raw_str[:2000] + "... [TRUNCATED]"
Truncated(data_len) ==
    IF data_len > TruncateAt THEN TruncateAt + TruncMarkerLen ELSE data_len

_create_rejected_record(call, reason) ==
    [call_id |-> call.id, tool_name |-> call.name, arguments |-> call.arguments,
     status |-> "rejected", raw_len |-> 0, rejection_reason |-> reason,
     cached |-> FALSE]

\* faulty variant: the status tests the result object, not result.ok
_process_result_truthy(call, result, current_chars) ==
    [call_id |-> call.id, tool_name |-> call.name, arguments |-> call.arguments,
     status |-> "executed",
     raw_len |-> Truncated(result.data_len), rejection_reason |-> "",
     cached |-> result.cached]

_process_result(call, result, current_chars) ==
    [call_id |-> call.id, tool_name |-> call.name, arguments |-> call.arguments,
     status |-> IF result.ok THEN "executed" ELSE "failed",
     raw_len |-> Truncated(result.data_len), rejection_reason |-> "",
     cached |-> result.cached]

(***************************************************************************)
(* The result cache                                                        *)
(***************************************************************************)
\* ttl = 300; if "search" in call.name: ttl = 600
TTL(name) == IF ContainsSearch(name) THEN SearchTTL ELSE DefaultTTL

\* _check_cache's test: key in _TOOL_CACHE and datetime.now() < expire_at
Live(c, key, t) == key \in DOMAIN c /\ t < c[key].expire_at

\* faulty variant: the cached flag is set on a copy that is thrown away
MarkCachedOnCopy(c, key) == c

\* faulty variant: a hit renews the entry (sliding expiry)
MarkCachedAndRenew(c, key) ==
    [c EXCEPT ![key].res.cached = TRUE, ![key].expire_at = @ + DefaultTTL]

\* _check_cache on a live entry: res.meta["cached"] = True, on the stored object
MarkCached(c, key) == [c EXCEPT ![key].res.cached = TRUE]

\* faulty variant: the expired entry is left in place
EvictNothing(c, key) == c

\* _check_cache on an expired entry: del _TOOL_CACHE[key]
Evict(c, key) == [k \in (DOMAIN c) \ {key} |-> c[k]]

\* faulty variant: the result is not stored before the loop goes on
_update_cache_deferred(c, call, result, t) == c

\* _update_cache: _TOOL_CACHE[key] = (result, now + ttl)
_update_cache(c, call, result, t) ==
    [k \in (DOMAIN c) \cup {CacheKey(call)} |->
        IF k = CacheKey(call)
        THEN [res |-> result, expire_at |-> t + TTL(call.name)]
        ELSE c[k]]

(***************************************************************************)
(* The loop of execute_tool_calls                                          *)
(***************************************************************************)
NoLookup == [seen |-> "none", prior_live |-> FALSE]

Cur(r) == sorted_calls[r][idx[r]]

InLoop(r) == pc[r] = "loop" /\ idx[r] <= Len(calls[r])

\* faulty variant: a cached result is served before the allowlist is consulted
AccessDeniedUnlessCached(r, call) ==
    /\ cfg[r].allowlist # {} /\ call.name \notin cfg[r].allowlist
    /\ ~Live(cache, CacheKey(call), now)

\* faulty variant: the registry is consulted before the allowlist
AccessDeniedIfRegistered(r, call) ==
    /\ cfg[r].allowlist # {} /\ call.name \notin cfg[r].allowlist
    /\ get_implementation(call.name) # None

\* 2. Allowlist Check
AccessDenied(r, call) ==
    cfg[r].allowlist # {} /\ call.name \notin cfg[r].allowlist

\* faulty variant: the comparison is > instead of >=
BudgetExceededOffByOne(r) == calls_executed_count[r] > cfg[r].max_calls_per_run

\* faulty variant: the allowlist check runs before the budget check
BudgetExceededAfterAllowlist(r) ==
    /\ calls_executed_count[r] >= cfg[r].max_calls_per_run
    /\ ~AccessDenied(r, Cur(r))

\* faulty variant: the budget is counted per tool, like the rate limits
BudgetExceededPerTool(r) ==
    Cardinality({i \in DOMAIN usage_records[r] :
                    /\ usage_records[r][i].status = "executed"
                    /\ usage_records[r][i].tool_name = Cur(r).name})
        >= cfg[r].max_calls_per_run

\* 1. Global Budget Check
BudgetExceeded(r) == calls_executed_count[r] >= cfg[r].max_calls_per_run

\* faulty variant: the try block is reached whatever the executed-call count
AdmittedDespiteBudget(r) ==
    /\ InLoop(r)
    /\ ~AccessDenied(r, Cur(r))
    /\ get_implementation(Cur(r).name) # None

\* the call passed checks 1-3 and reaches the try block
Admitted(r) ==
    /\ InLoop(r)
    /\ ~BudgetExceeded(r)
    /\ ~AccessDenied(r, Cur(r))
    /\ get_implementation(Cur(r).name) # None

\* a successful handler return for this key that is younger than the key's TTL
PriorLive(call) ==
    \E s \in success_log : s.key = CacheKey(call) /\ now < s.at + TTL(call.name)

\* faulty variant: a rejected call leaves no record
AppendRecordUnlessRejected(records, rec) ==
    IF rec.status = "rejected" THEN records ELSE Append(records, rec)

\* usage_records.append(record)
AppendRecord(records, rec) == Append(records, rec)

\* faulty variant: every call that reached the try block counts as executed
CountAfterAttempt(count, ok) == count + 1

\* if result.ok: calls_executed_count += 1
CountAfter(count, ok) == IF ok THEN count + 1 ELSE count

\* faulty variant: the comparison is > instead of >=
EvidenceLimitHitAbove(r, ok, total) == ok /\ total > cfg[r].max_evidence_chars

\* if result.ok: ... if total_evidence_chars >= self.max_evidence_chars: break
EvidenceLimitHit(r, ok, total) == ok /\ total >= cfg[r].max_evidence_chars

\* faulty variant: a call that did not succeed is tried again
NextCallUnlessFailed(i, ok) == IF ok THEN i + 1 ELSE i

\* for call in sorted_calls: the loop moves on whatever the outcome
NextCall(i, ok) == i + 1

\* faulty variant: the loop breaks without recording the evidence limit
TriggeredAfterSilentStop(triggered, pre_limit, broke) ==
    IF pre_limit = "" THEN triggered ELSE Append(triggered, pre_limit)

\* limits_triggered.append("max_calls_per_run") on a budget rejection and
\* limits_triggered.append("max_evidence_size") before the break
TriggeredAfter(triggered, pre_limit, broke) ==
    (IF pre_limit = "" THEN triggered ELSE Append(triggered, pre_limit))
    \o (IF broke THEN <<"max_evidence_size">> ELSE <<>>)

\* Appends the record to the ledger and folds the outcome into the counters
\* (router.py:88-100, and 53-55, 60-61, 67-68, 111 with ok = FALSE).
Commit(r, rec, aud, ok, pre_limit) ==
    LET total == IF ok /\ rec.raw_len > 0
                 THEN total_evidence_chars[r] + rec.raw_len
                 ELSE total_evidence_chars[r]
        broke == EvidenceLimitHit(r, ok, total)
    IN  /\ usage_records' = [usage_records EXCEPT ![r] = AppendRecord(@, rec)]
        /\ audit' = [audit EXCEPT ![r] = Append(@, aud)]
        /\ calls_executed_count' =
              [calls_executed_count EXCEPT ![r] = CountAfter(@, ok)]
        /\ total_evidence_chars' = [total_evidence_chars EXCEPT ![r] = total]
        /\ limits_triggered' =
              [limits_triggered EXCEPT ![r] = TriggeredAfter(@, pre_limit, broke)]
        /\ idx' = [idx EXCEPT ![r] = NextCall(@, ok)]
        /\ pc' = [pc EXCEPT ![r] =
                    IF broke \/ idx[r] >= Len(calls[r]) THEN "returned" ELSE "loop"]
        /\ lookup' = [lookup EXCEPT ![r] = NoLookup]
        /\ UNCHANGED <<cfg, calls, sorted_calls, now, registryvars, parservars>>

Aud(origin, lk) ==
    [origin |-> origin, seen |-> lk.seen, prior_live |-> lk.prior_live]

\* execute_tool_calls is entered: locals initialised, calls sorted
Start(r, lists, configs) ==
    /\ pc[r] = "idle"
    /\ \E cs \in lists, c \in configs :
          /\ calls' = [calls EXCEPT ![r] = WithIds(r, cs)]
          /\ sorted_calls' = [sorted_calls EXCEPT ![r] = sorted(WithIds(r, cs))]
          /\ cfg' = [cfg EXCEPT ![r] = c]
          /\ pc' = [pc EXCEPT ![r] = IF Len(cs) = 0 THEN "returned" ELSE "loop"]
    /\ idx' = [idx EXCEPT ![r] = 1]
    /\ UNCHANGED <<cache, now, usage_records, limits_triggered,
                   calls_executed_count, total_evidence_chars, audit, lookup,
                   success_log, registryvars, parservars>>

RejectBudget(r) ==
    /\ InLoop(r)
    /\ BudgetExceeded(r)
    /\ Commit(r, _create_rejected_record(Cur(r), "budget_exceeded"),
              Aud("budget", NoLookup), FALSE, "max_calls_per_run")
    /\ UNCHANGED <<cache, success_log>>

RejectAllowlist(r) ==
    /\ InLoop(r)
    /\ ~BudgetExceeded(r)
    /\ AccessDenied(r, Cur(r))
    /\ Commit(r, _create_rejected_record(Cur(r), "access_denied"),
              Aud("allowlist", NoLookup), FALSE, "")
    /\ UNCHANGED <<cache, success_log>>

RejectNotFound(r) ==
    /\ InLoop(r)
    /\ ~BudgetExceeded(r)
    /\ ~AccessDenied(r, Cur(r))
    /\ get_implementation(Cur(r).name) = None
    /\ Commit(r, _create_rejected_record(Cur(r), "tool_not_found"),
              Aud("registry", NoLookup), FALSE, "")
    /\ UNCHANGED <<cache, success_log>>

\* _check_cache raises TypeError building the key: the except block records
\* a failed call, the handler is not reached
CacheKeyError(r) ==
    /\ Admitted(r)
    /\ KeyRaises(Cur(r))
    /\ Commit(r, _process_result(Cur(r), error_result(Cur(r)),
                                 total_evidence_chars[r]),
              Aud("key_error", NoLookup), FALSE, "")
    /\ UNCHANGED <<cache, success_log>>

\* _check_cache returns the stored result
CacheHit(r) ==
    /\ Admitted(r)
    /\ ~KeyRaises(Cur(r))
    /\ Live(cache, CacheKey(Cur(r)), now)
    /\ LET key == CacheKey(Cur(r))
           hit == MarkCached(cache, key)
           result == hit[key].res
       IN  /\ cache' = hit
           /\ Commit(r, _process_result(Cur(r), result, total_evidence_chars[r]),
                     Aud("cache", [seen |-> "live", prior_live |-> PriorLive(Cur(r))]),
                     result.ok, "")
    /\ UNCHANGED success_log

\* _check_cache returns None (dropping an expired entry) and the handler is
\* awaited
InvokeHandler(r) ==
    /\ Admitted(r)
    /\ ~KeyRaises(Cur(r))
    /\ ~Live(cache, CacheKey(Cur(r)), now)
    /\ LET key == CacheKey(Cur(r))
       IN  /\ cache' = IF key \in DOMAIN cache THEN Evict(cache, key) ELSE cache
           /\ lookup' = [lookup EXCEPT ![r] =
                  [seen |-> IF key \in DOMAIN cache THEN "expired" ELSE "absent",
                   prior_live |-> PriorLive(Cur(r))]]
    /\ pc' = [pc EXCEPT ![r] = "await"]
    /\ UNCHANGED <<now, cfg, calls, sorted_calls, idx, usage_records, limits_triggered,
                   calls_executed_count, total_evidence_chars, audit, success_log,
                   registryvars, parservars>>

\* faulty variant: every returned result is stored, a failure included
CacheEveryResult(c, call, result, t) == _update_cache(c, call, result, t)

\* Cache successful results: if result.ok: self._update_cache(call, result)
CacheSuccessful(c, call, result, t) ==
    IF result.ok THEN _update_cache(c, call, result, t) ELSE c

\* the handler returns a ToolResult, ok or not
HandlerReturns(r, lens) ==
    /\ pc[r] = "await"
    /\ \E ok \in BOOLEAN, len \in lens :
          /\ ok \/ len = SmallLen
          /\ LET call == Cur(r)
                 result == IF ok THEN ToolResult(call.id, TRUE, len, "", FALSE)
                           ELSE ToolResult(call.id, FALSE, 0, "handler_error", FALSE)
             IN  /\ cache' = CacheSuccessful(cache, call, result, now)
                 /\ success_log' = IF result.ok
                                   THEN success_log \cup
                                        {[run |-> r, call_id |-> call.id,
                                          key |-> CacheKey(call), at |-> now]}
                                   ELSE success_log
                 /\ Commit(r, _process_result(call, result, total_evidence_chars[r]),
                           Aud(IF ok THEN "handler_ok" ELSE "handler_err", lookup[r]),
                           result.ok, "")

\* the handler raises: except Exception builds the tool_error result
HandlerRaises(r) ==
    /\ pc[r] = "await"
    /\ Commit(r, _process_result(Cur(r), error_result(Cur(r)),
                                 total_evidence_chars[r]),
              Aud("handler_raise", lookup[r]), FALSE, "")
    /\ UNCHANGED <<cache, success_log>>

\* time passes
Tick ==
    /\ now + TickStep <= MaxTime
    /\ now' = now + TickStep
    /\ UNCHANGED <<cache, runvars, success_log, registryvars, parservars>>

\* the EvidencePack returned at router.py:114-123
Pack(r) ==
    [run_id |-> r,
     tools_used |-> usage_records[r],
     limits |-> [max_calls |-> cfg[r].max_calls_per_run,
                 calls_used |-> calls_executed_count[r],
                 limits_triggered |->
                     {limits_triggered[r][i] : i \in DOMAIN limits_triggered[r]}]]

Returned(r) == pc[r] = "returned"

(***************************************************************************)
(* ToolParser.  A text is a sequence of tokens: the characters the parser  *)
(* looks for, JSON keys and literals, and prose.                           *)
(***************************************************************************)
MaxTextLen == 3          \* every text up to this many tokens is parsed

\* the three backticks of a markdown fence
Fence == "FENCE"
JsonTag == "json"
Space == " "
Prose == "x"

\* a JSON key with its colon
KeyTokens == {"action:", "calls:", "reason:"}

KeyName(k) ==
    CASE k = "action:" -> "action"
      [] k = "calls:" -> "calls"
      [] k = "reason:" -> "reason"

\* JSON string literals, the parser's own reason codes among them, and the
\* literal null
StringTokens ==
    {"use_tools", "no_tools", "other", "output_parsing_failed", "json_decode_error"}
NullTokens == {"null"}

Tokens ==
    {"{", "}", "[", "]", ",", Fence, JsonTag, Space, Prose}
    \cup KeyTokens \cup StringTokens \cup NullTokens

\* decoded JSON values: a string, None, a list (its length), an object
Str(v) == [kind |-> "str", str |-> v, len |-> 0]
Null == [kind |-> "null", str |-> "", len |-> 0]
List(n) == [kind |-> "list", str |-> "", len |-> n]
Obj == [kind |-> "dict", str |-> "", len |-> 0]

EmptyDict == [k \in {} |-> Null]

RECURSIVE lstrip(_)
lstrip(s) == IF s # <<>> /\ Head(s) = Space THEN lstrip(Tail(s)) ELSE s

RECURSIVE rstrip(_)
rstrip(s) ==
    IF s # <<>> /\ s[Len(s)] = Space THEN rstrip(SubSeq(s, 1, Len(s) - 1)) ELSE s

\* str.strip()
strip(s) == rstrip(lstrip(s))

Min(S) == CHOOSE x \in S : \A y \in S : x <= y
Max(S) == CHOOSE x \in S : \A y \in S : x >= y

Positions(s, tok) == {i \in DOMAIN s : s[i] = tok}

\* re.search(pattern, text, re.DOTALL) with the pattern
\* fence (?:json)? \s* (.*?) \s* fence: the match starts at the first fence
\* when a second one follows, and group(1) is what lies between them without
\* the tag and the surrounding whitespace
_strip_markdown(t) ==
    LET fences == Positions(t, Fence)
    IN  IF Cardinality(fences) < 2 THEN t
        ELSE LET first == Min(fences)
                 second == Min(fences \ {first})
                 inner == SubSeq(t, first + 1, second - 1)
                 untagged == IF inner # <<>> /\ Head(inner) = JsonTag
                             THEN Tail(inner) ELSE inner
             IN  strip(untagged)

\* the None of _extract_json_string
NoJson == <<>>

\* faulty variant: no prose tolerance, the stripped text has to begin with
\* '{' and end with '}'
_extract_json_string_whole(t) ==
    LET s == strip(t)
    IN  IF Len(s) >= 2 /\ Head(s) = "{" /\ s[Len(s)] = "}" THEN s ELSE NoJson

\* faulty variant: the object ends at the first '}' (find instead of rfind)
_extract_json_string_first_close(t) ==
    LET s == strip(t)
        opens == Positions(s, "{")
        closes == Positions(s, "}")
    IN  IF opens # {} /\ closes # {} /\ Min(closes) > Min(opens)
        THEN SubSeq(s, Min(opens), Min(closes))
        ELSE NoJson

\* text.find('{'), text.rfind('}') on the stripped text
_extract_json_string(t) ==
    LET s == strip(t)
        opens == Positions(s, "{")
        closes == Positions(s, "}")
    IN  IF opens # {} /\ closes # {} /\ Max(closes) > Min(opens)
        THEN SubSeq(s, Min(opens), Max(closes))
        ELSE NoJson

\* the outcome of decoding: the value, its members when it is an object, and
\* the tokens left after it
Decoded(val, dict, rest) == [ok |-> TRUE, val |-> val, dict |-> dict, rest |-> rest]

\* json.JSONDecodeError
DecodeError == [ok |-> FALSE, val |-> Null, dict |-> EmptyDict, rest |-> <<>>]

RECURSIVE ParseValue(_)
RECURSIVE ParseArrayRest(_, _)
RECURSIVE ParseMember(_, _)
RECURSIVE ParseObjectRest(_, _)

\* after an item of a list: ']' ends the list, ',' brings one more item
ParseArrayRest(s, n) ==
    IF s = <<>> THEN DecodeError
    ELSE IF Head(s) = "]" THEN Decoded(List(n), EmptyDict, Tail(s))
    ELSE IF Head(s) = ","
         THEN LET item == ParseValue(Tail(s))
              IN  IF item.ok THEN ParseArrayRest(item.rest, n + 1) ELSE DecodeError
         ELSE DecodeError

\* a key and its value, put into d: a repeated key keeps its last value
ParseMember(s, d) ==
    IF s = <<>> THEN DecodeError
    ELSE IF Head(s) \notin KeyTokens THEN DecodeError
    ELSE LET v == ParseValue(Tail(s))
         IN  IF v.ok
             THEN ParseObjectRest(v.rest, DictSet(d, KeyName(Head(s)), v.val))
             ELSE DecodeError

\* after a member of an object: '}' ends the object, ',' brings one more
ParseObjectRest(s, d) ==
    IF s = <<>> THEN DecodeError
    ELSE IF Head(s) = "}" THEN Decoded(Obj, d, Tail(s))
    ELSE IF Head(s) = "," THEN ParseMember(Tail(s), d)
    ELSE DecodeError

\* one JSON value at the head of s
ParseValue(s) ==
    IF s = <<>> THEN DecodeError
    ELSE IF Head(s) \in StringTokens THEN Decoded(Str(Head(s)), EmptyDict, Tail(s))
    ELSE IF Head(s) \in NullTokens THEN Decoded(Null, EmptyDict, Tail(s))
    ELSE IF Head(s) = "["
         THEN IF Tail(s) # <<>> /\ Head(Tail(s)) = "]"
              THEN Decoded(List(0), EmptyDict, Tail(Tail(s)))
              ELSE LET item == ParseValue(Tail(s))
                   IN  IF item.ok THEN ParseArrayRest(item.rest, 1) ELSE DecodeError
    ELSE IF Head(s) = "{"
         THEN IF Tail(s) # <<>> /\ Head(Tail(s)) = "}"
              THEN Decoded(Obj, EmptyDict, Tail(Tail(s)))
              ELSE ParseMember(Tail(s), EmptyDict)
    ELSE DecodeError

NotSpace(tok) == tok # Space

\* json.loads: one value, whitespace between tokens ignored, nothing after it
json_loads(s) ==
    LET r == ParseValue(SelectSeq(s, NotSpace))
    IN  IF r.ok /\ r.rest = <<>> THEN r ELSE DecodeError

\* {"action": "no_tools", "reason": reason}
Fallback(reason) == [action |-> Str("no_tools"), reason |-> Str(reason)]

\* faulty variant: an object with neither action nor calls is returned as it is
WithActionOnlyFromCalls(data) ==
    IF "action" \in DOMAIN data THEN data
    ELSE IF "calls" \in DOMAIN data /\ data["calls"].kind = "list"
         THEN DictSet(data, "action", Str("use_tools"))
         ELSE data

\* 4. Validation (Basic Structure): parser.py:49-55
WithAction(data) ==
    IF "action" \in DOMAIN data THEN data
    ELSE IF "calls" \in DOMAIN data /\ data["calls"].kind = "list"
         THEN DictSet(data, "action", Str("use_tools"))
         ELSE DictSet(DictSet(data, "action", Str("no_tools")),
                      "reason", Str("missing_action_field"))

parse_steward_output(t) ==
    LET clean_text == _strip_markdown(t)
        json_str == _extract_json_string(clean_text)
        loaded == json_loads(json_str)
    IN  IF json_str = NoJson THEN Fallback("output_parsing_failed")
        ELSE IF ~loaded.ok THEN Fallback("json_decode_error")
        ELSE WithAction(loaded.dict)

\* nothing returned yet
NoDecision == [pending |-> Str("")]

(***************************************************************************)
(* The responses the parser is given                                       *)
(***************************************************************************)
\* the members a decision object is written with
MemberTexts ==
    {<<"action:", v>> : v \in StringTokens \cup NullTokens}
    \cup {<<"calls:", "[", "]">>, <<"calls:", "[", "{", "}", "]">>,
          <<"calls:", "other">>, <<"reason:", "other">>,
          <<"reason:", "output_parsing_failed">>, <<"reason:", "json_decode_error">>}

\* objects of no, one and two members
ObjectTexts ==
    {<<"{", "}">>}
    \cup {<<"{">> \o m \o <<"}">> : m \in MemberTexts}
    \cup {<<"{">> \o m[1] \o <<",">> \o m[2] \o <<"}">> :
             m \in MemberTexts \X MemberTexts}

\* objects cut short or miswritten: a trailing comma, a key without a value,
\* a list left open
BrokenObjectTexts ==
    {<<"{">> \o m \o <<",", "}">> : m \in MemberTexts}
    \cup {<<"{", "action:", "}">>, <<"{", "calls:", "[", "{", "}", "}">>}

\* what a model writes before and after the object
Preambles ==
    {<<>>, <<Prose>>, <<Fence>>, <<Fence, JsonTag, Space>>,
     <<Prose, Space, Fence, JsonTag>>, <<"{">>, <<"}">>, <<Fence, Prose, Fence>>}

Postambles ==
    {<<>>, <<Prose>>, <<Fence>>, <<Space, Fence, Prose>>, <<"{">>, <<"}">>}

DecisionTexts ==
    {w[1] \o w[2] \o w[3] :
        w \in Preambles \X (ObjectTexts \cup BrokenObjectTexts) \X Postambles}

Texts == SeqsUpTo(Tokens, MaxTextLen) \cup DecisionTexts

\* parse_steward_output(response["content"])
ParseStewardOutput ==
    /\ decision = NoDecision
    /\ decision' = parse_steward_output(text)
    /\ UNCHANGED <<text, parsed_data, routervars, registryvars>>

(***************************************************************************)
(* run_tool_steward_phase: from the parsed decision to the router          *)
(***************************************************************************)
MaxProposed == 4         \* entries of a decision's calls list

\* router = ToolRouter(allowlist=[...], max_calls_per_run=3)
StewardMaxCalls == 3
StewardAllowlist == {"web.search", "web.fetch", "finance.quote"}

StewardConfig ==
    [allowlist |-> StewardAllowlist,
     max_calls_per_run |-> StewardMaxCalls,
     max_evidence_chars |-> DefaultMaxEvidenceChars]

\* the entries the Steward writes into calls, as call_dict.get reads them
\* (name None when the key is missing): a well-formed call, one with a
\* priority outside ToolPriority, one without a name, one for an allowlisted
\* tool that is not registered, one for a tool outside the allowlist, and
\* one with a list-valued argument
CallDicts ==
    {[name |-> "web.search", arguments |-> [q |-> "A"], priority |-> "normal"],
     [name |-> "web.search", arguments |-> [q |-> "A"], priority |-> "urgent"],
     [name |-> None, arguments |-> [q |-> "A"], priority |-> "normal"],
     [name |-> "finance.quote", arguments |-> [q |-> "A"], priority |-> "low"],
     [name |-> "shell.exec", arguments |-> [q |-> "A"], priority |-> "normal"],
     [name |-> "web.search", arguments |-> [q |-> "[A]"], priority |-> "high"]}

ProposedLists == SeqsUpTo(CallDicts, MaxProposed)

\* ToolCall(...) validates its fields: name: str, priority: ToolPriority
Validates(call_dict) ==
    call_dict.name # None /\ call_dict.priority \in Priorities

ToolCallOf(call_dict) ==
    [name |-> call_dict.name, arguments |-> call_dict.arguments,
     priority |-> call_dict.priority]

RECURSIVE tool_calls_until_error(_)
\* faulty variant: the try is around the whole loop, the first entry that
\* does not validate ends it
tool_calls_until_error(ds) ==
    IF ds = <<>> \/ ~Validates(Head(ds)) THEN <<>>
    ELSE <<ToolCallOf(Head(ds))>> \o tool_calls_until_error(Tail(ds))

RECURSIVE tool_calls(_)
\* for call_dict in parsed_data["calls"]: try: tool_calls.append(ToolCall(..))
\* except Exception: logger.warning(..)
tool_calls(ds) ==
    IF ds = <<>> THEN <<>>
    ELSE (IF Validates(Head(ds)) THEN <<ToolCallOf(Head(ds))>> ELSE <<>>)
         \o tool_calls(Tail(ds))

\* run_tool_steward_phase from step 4 on: the router is built, and a
\* use_tools decision with calls has its ToolCalls built and handed to
\* execute_tool_calls; any other decision returns an empty pack
StewardPhase(r) ==
    /\ pc[r] = "idle"
    /\ \E a \in {"use_tools", "no_tools"}, ds \in ProposedLists :
          /\ parsed_data' = [parsed_data EXCEPT ![r] = [action |-> a, calls |-> ds]]
          /\ LET handed == IF a = "use_tools" /\ ds # <<>>
                           THEN WithIds(r, tool_calls(ds))
                           ELSE <<>>
             IN  /\ calls' = [calls EXCEPT ![r] = handed]
                 /\ sorted_calls' = [sorted_calls EXCEPT ![r] = sorted(handed)]
                 /\ pc' = [pc EXCEPT ![r] =
                             IF handed = <<>> THEN "returned" ELSE "loop"]
    /\ cfg' = [cfg EXCEPT ![r] = StewardConfig]
    /\ idx' = [idx EXCEPT ![r] = 1]
    /\ UNCHANGED <<cache, now, usage_records, limits_triggered,
                   calls_executed_count, total_evidence_chars, audit, lookup,
                   success_log, registryvars, text, decision>>

\* an empty cache and no run started
RouterInit ==
    /\ cache = <<>>
    /\ now = 0
    /\ pc = [r \in RunIds |-> "idle"]
    /\ cfg = [r \in RunIds |->
                [allowlist |-> {}, max_calls_per_run |-> 0,
                 max_evidence_chars |-> DefaultMaxEvidenceChars]]
    /\ calls = [r \in RunIds |-> <<>>]
    /\ sorted_calls = [r \in RunIds |-> <<>>]
    /\ idx = [r \in RunIds |-> 1]
    /\ usage_records = [r \in RunIds |-> <<>>]
    /\ limits_triggered = [r \in RunIds |-> <<>>]
    /\ calls_executed_count = [r \in RunIds |-> 0]
    /\ total_evidence_chars = [r \in RunIds |-> 0]
    /\ audit = [r \in RunIds |-> <<>>]
    /\ lookup = [r \in RunIds |-> NoLookup]
    /\ success_log = {}

\* the catalog after definitions/web.py was imported
RegistryLoaded ==
    /\ _tools = [n \in Implementations |-> ToolDefinition(n, "d1")]
    /\ _implementations = [n \in Implementations |-> WebHandler(n)]
    /\ registered = WebRegistrations

\* parsed_data = {"action": "no_tools"} # Fallback
NoParsedData == [action |-> "no_tools", calls |-> <<>>]

\* no response parsed
ParserIdle ==
    /\ text = <<>>
    /\ decision = NoDecision
    /\ parsed_data = [r \in RunIds |-> NoParsedData]

Init == RouterInit /\ RegistryLoaded /\ ParserIdle

Iteration(r, lens) ==
    \/ RejectBudget(r)
    \/ RejectAllowlist(r)
    \/ RejectNotFound(r)
    \/ CacheKeyError(r)
    \/ CacheHit(r)
    \/ InvokeHandler(r)
    \/ HandlerReturns(r, lens)
    \/ HandlerRaises(r)

\* one execute_tool_calls, any input, within one reading of the clock
Next ==
    \/ \E r \in SeqRuns : Start(r, InputLists, Configs)
    \/ \E r \in SeqRuns : Iteration(r, {SmallLen})

Spec == Init /\ [][Next]_vars

\* two execute_tool_calls on one event loop, sharing the cache, while time passes
ConcNext ==
    \/ \E r \in RunIds : Start(r, ConcInputLists, ConcConfigs)
    \/ \E r \in RunIds : Iteration(r, {SmallLen, BigLen})
    \/ Tick

ConcSpec == Init /\ [][ConcNext]_vars

\* an evidence cap that one truncated payload does not reach and two do
MidEvidenceCap == 2100

SizeInputLists == SeqsUpTo(ConcCallSpecs, MaxCalls)

SizeConfigs ==
    [allowlist : AllowlistOptions,
     max_calls_per_run : {1, MaxBudget},
     max_evidence_chars : {SmallEvidenceCap, MidEvidenceCap}]

\* one execute_tool_calls whose handlers return short and over-long payloads
\* under evidence caps the payloads reach
SizeNext ==
    \/ \E r \in SeqRuns : Start(r, SizeInputLists, SizeConfigs)
    \/ \E r \in SeqRuns : Iteration(r, {SmallLen, BigLen})

SizeSpec == Init /\ [][SizeNext]_vars

\* the same, where the loop keeps running and every awaited handler
\* eventually returns or raises
TermSpec ==
    /\ Init
    /\ [][SizeNext]_vars
    /\ WF_vars(\E r \in SeqRuns : Iteration(r, {SmallLen, BigLen}))

(***************************************************************************)
(* Registration: the decorators applied one after the other                *)
(***************************************************************************)
MaxRegistrations == 3    \* how many registrations are made

\* @ToolRegistry.register(name=..., description=...) on def func
Register(name, description, func) ==
    /\ Len(registered) < MaxRegistrations
    /\ register(name, description, func)
    /\ registered' = Append(registered,
                            [name |-> name,
                             definition |-> ToolDefinition(name, description),
                             func |-> func])
    /\ UNCHANGED <<routervars, parservars>>

\* the class attributes as registry.py creates them
RegistryEmpty ==
    /\ _tools = <<>>
    /\ _implementations = <<>>
    /\ registered = <<>>

RegistryInit == RouterInit /\ RegistryEmpty /\ ParserIdle

RegistryNext ==
    \E name \in ToolNames, description \in Descriptions, func \in Handlers :
        Register(name, description, func)

RegistrySpec == RegistryInit /\ [][RegistryNext]_vars

\* one steward phase: the decision's calls, then the router's loop
StewardNext ==
    \/ \E r \in SeqRuns : StewardPhase(r)
    \/ \E r \in SeqRuns : Iteration(r, {SmallLen})

StewardSpec == Init /\ [][StewardNext]_vars

(***************************************************************************)
(* Parsing: one response, parsed once                                      *)
(***************************************************************************)
ParserInit ==
    /\ RouterInit
    /\ RegistryLoaded
    /\ text \in Texts
    /\ decision = NoDecision
    /\ parsed_data = [r \in RunIds |-> NoParsedData]

ParserNext == ParseStewardOutput

ParserSpec == ParserInit /\ [][ParserNext]_vars

(***************************************************************************)
(* Properties                                                              *)
(***************************************************************************)
Records(r) == usage_records[r]

NumWith(seq, st) == Cardinality({i \in DOMAIN seq : seq[i].status = st})

EvidenceStopped(r) == "max_evidence_size" \in Pack(r).limits.limits_triggered

\* the allowlist is configured and does not hold the name
NotAllowlisted(r, name) == cfg[r].allowlist # {} /\ name \notin cfg[r].allowlist

\* executed records among the first n of the run
ExecutedBefore(r, n) ==
    Cardinality({i \in 1..n : Records(r)[i].status = "executed"})

\* the input call a record's call_id names
CallOf(r, rec) == calls[r][rec.call_id[2]]

PriorityRank(p) == CASE p = "high" -> 0 [] p = "normal" -> 1 [] p = "low" -> 2

\* a comes before b in the stable priority order of the input list
Before(a, b) ==
    \/ PriorityRank(a.priority) < PriorityRank(b.priority)
    \/ /\ PriorityRank(a.priority) = PriorityRank(b.priority)
       /\ a.id[2] < b.id[2]

\* run r took a step of its loop
RunStepped(r) == idx'[r] # idx[r] \/ pc'[r] # pc[r]

\* C1 (as stated): the returned pack has exactly one record per input call.
C1_LedgerComplete ==
    \A r \in RunIds :
        Returned(r) => Len(Pack(r).tools_used) = Len(calls[r])

\* C1 (amended): the returned pack never has more records than input calls,
\* no call has two records, and it has exactly one record per input call
\* unless the evidence-size stop ended the loop, in which case the last
\* record is the executed call that reached the limit.
C1_LedgerCompleteUnlessStopped ==
    \A r \in RunIds :
        Returned(r) =>
            LET used == Pack(r).tools_used
            IN  /\ Len(used) <= Len(calls[r])
                /\ \A i \in DOMAIN used :
                      \E k \in DOMAIN calls[r] : calls[r][k].id = used[i].call_id
                /\ \A i, j \in DOMAIN used :
                      i # j => used[i].call_id # used[j].call_id
                /\ ~EvidenceStopped(r) => Len(used) = Len(calls[r])
                /\ EvidenceStopped(r) =>
                      /\ Len(used) >= 1
                      /\ used[Len(used)].status = "executed"

C1_Witness ==
    \E r \in RunIds :
        /\ Returned(r)
        /\ EvidenceStopped(r)
        /\ Len(Records(r)) < Len(calls[r])

\* C2: under a non-empty allowlist a call to a tool outside it is never
\* handed to a handler and never served from the cache: its record is never
\* executed or failed, whatever the shared cache holds.
C2_DeniedNeverServed ==
    \A r \in RunIds :
        /\ \A i \in DOMAIN Records(r) :
              NotAllowlisted(r, Records(r)[i].tool_name) =>
                  /\ Records(r)[i].status = "rejected"
                  /\ ~Records(r)[i].cached
                  /\ audit[r][i].origin \in {"budget", "allowlist"}
        /\ pc[r] = "await" => ~NotAllowlisted(r, Cur(r).name)

\* a denied call while the cache holds a live entry for its key written by
\* the other run
C2_Witness ==
    \E r \in RunIds : \E i \in DOMAIN Records(r) :
        /\ NotAllowlisted(r, Records(r)[i].tool_name)
        /\ audit[r][i].origin = "allowlist"
        /\ Live(cache, CacheKey(CallOf(r, Records(r)[i])), now)
        /\ cache[CacheKey(CallOf(r, Records(r)[i]))].res.id[1] # r

\* C3 (as stated): every record of a call outside the allowlist is rejected
\* with access_denied.
C3_AlwaysAccessDenied ==
    \A r \in RunIds : \A i \in DOMAIN Records(r) :
        NotAllowlisted(r, Records(r)[i].tool_name) =>
            /\ Records(r)[i].status = "rejected"
            /\ Records(r)[i].rejection_reason = "access_denied"

\* C3 (amended): every record of a call outside the allowlist is rejected;
\* the reason is access_denied when fewer than max_calls_per_run calls were
\* executed before it and budget_exceeded otherwise; and unless the
\* evidence-size stop ended the loop every such call has a record.
C3_DeniedOrOverBudget ==
    \A r \in RunIds :
        /\ \A i \in DOMAIN Records(r) :
              NotAllowlisted(r, Records(r)[i].tool_name) =>
                  /\ Records(r)[i].status = "rejected"
                  /\ Records(r)[i].rejection_reason =
                        IF ExecutedBefore(r, i - 1) >= cfg[r].max_calls_per_run
                        THEN "budget_exceeded"
                        ELSE "access_denied"
        /\ (Returned(r) /\ ~EvidenceStopped(r)) =>
              \A k \in DOMAIN calls[r] :
                  NotAllowlisted(r, calls[r][k].name) =>
                      \E i \in DOMAIN Records(r) :
                          Records(r)[i].call_id = calls[r][k].id

C3_Witness ==
    \E r \in RunIds : \E i, j \in DOMAIN Records(r) :
        /\ NotAllowlisted(r, Records(r)[i].tool_name)
        /\ NotAllowlisted(r, Records(r)[j].tool_name)
        /\ Records(r)[i].rejection_reason = "access_denied"
        /\ Records(r)[j].rejection_reason = "budget_exceeded"
        /\ CallOf(r, Records(r)[j]).priority = "low"

\* every input call of the run names an allowlisted, registered tool
AllAdmissible(r) ==
    \A k \in DOMAIN calls[r] :
        /\ ~NotAllowlisted(r, calls[r][k].name)
        /\ calls[r][k].name \in Implementations

RejectedAreOverBudget(r) ==
    \A i \in DOMAIN Records(r) :
        Records(r)[i].status = "rejected" =>
            Records(r)[i].rejection_reason = "budget_exceeded"

\* C4 (as stated): N calls to allowlisted registered tools under a budget
\* B < N give exactly B executed and N-B rejected records, all rejected
\* with budget_exceeded.
C4_ExactlyBudgetExecuted ==
    \A r \in RunIds :
        (/\ Returned(r)
         /\ AllAdmissible(r)
         /\ cfg[r].max_calls_per_run < Len(calls[r])) =>
            /\ NumWith(Records(r), "executed") = cfg[r].max_calls_per_run
            /\ NumWith(Records(r), "rejected") =
                  Len(calls[r]) - cfg[r].max_calls_per_run
            /\ RejectedAreOverBudget(r)

\* C4 (amended): under the same conditions at most B records are executed,
\* every rejected record is rejected with budget_exceeded after exactly B
\* executed ones, and when no record is failed and the evidence-size stop
\* did not end the loop there are exactly B executed and N-B rejected.
C4_BudgetExecutedUnlessFailed ==
    \A r \in RunIds :
        (/\ Returned(r)
         /\ AllAdmissible(r)
         /\ cfg[r].max_calls_per_run < Len(calls[r])) =>
            /\ NumWith(Records(r), "executed") <= cfg[r].max_calls_per_run
            /\ RejectedAreOverBudget(r)
            /\ \A i \in DOMAIN Records(r) :
                  Records(r)[i].status = "rejected" =>
                      ExecutedBefore(r, i - 1) = cfg[r].max_calls_per_run
            /\ (NumWith(Records(r), "failed") = 0 /\ ~EvidenceStopped(r)) =>
                  /\ NumWith(Records(r), "executed") = cfg[r].max_calls_per_run
                  /\ NumWith(Records(r), "rejected") =
                        Len(calls[r]) - cfg[r].max_calls_per_run

C4_Witness ==
    \E r \in RunIds :
        /\ Returned(r)
        /\ AllAdmissible(r)
        /\ Len(calls[r]) = 3
        /\ cfg[r].max_calls_per_run = 2
        /\ NumWith(Records(r), "executed") = 2
        /\ NumWith(Records(r), "rejected") = 1

\* C5: records are appended in the stable priority order of the input list
\* (high, normal, low; ties in input order), the recorded call ids are a
\* prefix of the input sorted that way (no call without a record comes
\* before a recorded one), and each record carries the id, tool name and
\* arguments of its own call.  Before is a strict total order on the calls
\* of a run, so neighbouring records and the last record stand for all pairs.
C5_StablePriorityOrder ==
    \A r \in RunIds :
        /\ \A i \in DOMAIN Records(r) :
              /\ Records(r)[i].call_id[1] = r
              /\ Records(r)[i].call_id[2] \in DOMAIN calls[r]
              /\ Records(r)[i].tool_name = CallOf(r, Records(r)[i]).name
              /\ Records(r)[i].arguments = CallOf(r, Records(r)[i]).arguments
        /\ \A i \in 1..(Len(Records(r)) - 1) :
              Before(CallOf(r, Records(r)[i]), CallOf(r, Records(r)[i + 1]))
        /\ \A k \in DOMAIN calls[r] :
              (\A j \in DOMAIN Records(r) : Records(r)[j].call_id # calls[r][k].id) =>
                  (Records(r) # <<>> =>
                      ~Before(calls[r][k], CallOf(r, Records(r)[Len(Records(r))])))

\* three records, not in input order, two of equal priority, one from the cache
C5_Witness ==
    \E r \in RunIds :
        /\ Len(Records(r)) = 3
        /\ Records(r)[1].call_id[2] = 3
        /\ CallOf(r, Records(r)[2]).priority = CallOf(r, Records(r)[3]).priority
        /\ Records(r)[3].cached

\* C6: once a call is rejected with budget_exceeded every later call of the
\* run is rejected with budget_exceeded by the budget check, with no handler
\* invocation and no cache lookup; hence no call is budget-rejected while a
\* call of strictly lower priority is executed.
C6_BudgetExhaustionPermanent ==
    \A r \in RunIds :
        /\ \A i, j \in DOMAIN Records(r) :
              (i < j /\ Records(r)[i].rejection_reason = "budget_exceeded") =>
                  /\ Records(r)[j].status = "rejected"
                  /\ Records(r)[j].rejection_reason = "budget_exceeded"
                  /\ audit[r][j].origin = "budget"
                  /\ audit[r][j].seen = "none"
        /\ pc[r] = "await" =>
              \A i \in DOMAIN Records(r) :
                  Records(r)[i].rejection_reason # "budget_exceeded"
        /\ \A i, j \in DOMAIN Records(r) :
              (/\ Records(r)[i].rejection_reason = "budget_exceeded"
               /\ Records(r)[j].status = "executed") =>
                  PriorityRank(CallOf(r, Records(r)[j]).priority)
                      <= PriorityRank(CallOf(r, Records(r)[i]).priority)

\* an executed call, then two budget rejections, the last for another tool
C6_Witness ==
    \E r \in RunIds :
        /\ Len(Records(r)) = 3
        /\ Records(r)[1].status = "executed"
        /\ Records(r)[2].rejection_reason = "budget_exceeded"
        /\ Records(r)[3].rejection_reason = "budget_exceeded"
        /\ Records(r)[3].tool_name # Records(r)[2].tool_name

C8_CacheHitWithinTTL ==
    \A r \in RunIds :
        /\ \A i \in DOMAIN Records(r) :
              (audit[r][i].prior_live /\ audit[r][i].seen # "none") =>
                  /\ audit[r][i].origin = "cache"
                  /\ Records(r)[i].status = "executed"
                  /\ Records(r)[i].cached
        /\ pc[r] = "await" => ~lookup[r].prior_live

\* a hit, after time has passed, on a result another run's handler returned
C8_Witness ==
    \E r \in RunIds : \E i \in DOMAIN Records(r) :
        /\ audit[r][i].origin = "cache"
        /\ audit[r][i].prior_live
        /\ Records(r)[i].cached
        /\ now > 0
        /\ \A s \in success_log :
              s.key = CacheKey(CallOf(r, Records(r)[i])) => s.run # r /\ s.at < now

\* C9 (as stated): two successful handler returns for the same tool and
\* arguments are at least the tool's TTL apart, across all runs.
C9_AtMostOncePerWindow ==
    \A s1, s2 \in success_log :
        (s1 # s2 /\ s1.key = s2.key /\ s1.at <= s2.at) =>
            s2.at - s1.at >= TTL(s1.key[1])

\* C10: an admitted call whose lookup finds an expired entry removes it and
\* invokes the handler, and when that handler returns ok the key holds a
\* fresh entry, made from this result, that expires later than now.
C10_ExpiredEntryRefreshed ==
    [][\A r \in RunIds :
          /\ (/\ Admitted(r)
              /\ ~KeyRaises(Cur(r))
              /\ CacheKey(Cur(r)) \in DOMAIN cache
              /\ now >= cache[CacheKey(Cur(r))].expire_at
              /\ RunStepped(r)) =>
                 /\ CacheKey(Cur(r)) \notin DOMAIN cache'
                 /\ pc'[r] = "await"
                 /\ lookup'[r].seen = "expired"
          /\ (/\ pc[r] = "await"
              /\ lookup[r].seen = "expired"
              /\ RunStepped(r)
              /\ usage_records'[r][Len(usage_records'[r])].status = "executed") =>
                 /\ CacheKey(Cur(r)) \in DOMAIN cache'
                 /\ cache'[CacheKey(Cur(r))].expire_at > now
                 /\ cache'[CacheKey(Cur(r))].res.id = Cur(r).id
                 /\ ~cache'[CacheKey(Cur(r))].res.cached
      ]_vars

\* an expired entry was found, the handler returned ok and its result is the
\* live entry of the key
C10_Witness ==
    \E r \in RunIds : \E i \in DOMAIN Records(r) :
        /\ audit[r][i].seen = "expired"
        /\ audit[r][i].origin = "handler_ok"
        /\ Live(cache, CacheKey(CallOf(r, Records(r)[i])), now)
        /\ cache[CacheKey(CallOf(r, Records(r)[i]))].res.id = Records(r)[i].call_id

RECURSIVE EvidenceSum(_)
\* the truncated payload lengths of the executed records, added up
EvidenceSum(recs) ==
    IF recs = <<>> THEN 0
    ELSE (IF Head(recs).status = "executed" THEN Head(recs).raw_len ELSE 0)
         + EvidenceSum(Tail(recs))

HandlerOrigins == {"handler_ok", "handler_err", "handler_raise"}

\* handler invocations of the run so far, the one in flight included
HandlerInvocations(r) ==
    Cardinality({i \in DOMAIN audit[r] : audit[r][i].origin \in HandlerOrigins})
    + (IF pc[r] = "await" THEN 1 ELSE 0)

\* C11: while a run is in its loop every call before the current one has its
\* record, the executed-call count and the evidence total are those of the
\* records, and each result a handler returned ok is in the cache until its
\* TTL is over; a handler is in flight only for the current call, after a
\* lookup that missed, and no lookup is pending otherwise.
C11_SequentialAdmission ==
    \A r \in RunIds :
        /\ pc[r] \in {"loop", "await"} =>
              /\ idx[r] \in DOMAIN sorted_calls[r]
              /\ Len(Records(r)) = idx[r] - 1
              /\ \A i \in DOMAIN Records(r) :
                    Records(r)[i].call_id = sorted_calls[r][i].id
              /\ calls_executed_count[r] = NumWith(Records(r), "executed")
              /\ total_evidence_chars[r] = EvidenceSum(Records(r))
              /\ \A i \in DOMAIN Records(r) :
                    audit[r][i].origin = "handler_ok" =>
                        \E s \in success_log :
                            /\ s.call_id = Records(r)[i].call_id
                            /\ \/ now >= s.at + TTL(Records(r)[i].tool_name)
                               \/ /\ s.key \in DOMAIN cache
                                  /\ cache[s.key].expire_at
                                        >= s.at + TTL(Records(r)[i].tool_name)
        /\ pc[r] = "await" => lookup[r].seen \in {"absent", "expired"}
        /\ pc[r] # "await" => lookup[r] = NoLookup

\* the second call of a run is served the result the first call's handler
\* returned
C11_Witness ==
    \E r \in RunIds :
        /\ Len(Records(r)) = 2
        /\ audit[r][1].origin = "handler_ok"
        /\ audit[r][2].origin = "cache"
        /\ calls_executed_count[r] = 2
        /\ cache[CacheKey(CallOf(r, Records(r)[2]))].res.id = Records(r)[1].call_id

C13_StatusMapping ==
    \A r \in RunIds : \A i \in DOMAIN Records(r) :
        /\ Records(r)[i].status = "executed" <=>
              audit[r][i].origin \in {"handler_ok", "cache"}
        /\ Records(r)[i].status = "rejected" <=>
              /\ audit[r][i].origin \in {"budget", "allowlist", "registry"}
              /\ audit[r][i].seen = "none"
        /\ Records(r)[i].status = "failed" <=>
              audit[r][i].origin \in {"handler_err", "handler_raise"}

\* C14: in a returned pack max_calls is the configured max_calls_per_run,
\* calls_used is the number of executed records of tools_used, and calls_used
\* is at most max_calls when max_calls_per_run >= 0.
C14_BudgetAccounting ==
    \A r \in RunIds :
        Returned(r) =>
            /\ Pack(r).limits.max_calls = cfg[r].max_calls_per_run
            /\ Pack(r).limits.calls_used = NumWith(Pack(r).tools_used, "executed")
            /\ cfg[r].max_calls_per_run >= 0 =>
                  Pack(r).limits.calls_used <= Pack(r).limits.max_calls

\* a failed, an executed and a rejected record, and one call used
C14_Witness ==
    \E r \in RunIds :
        /\ Returned(r)
        /\ NumWith(Records(r), "failed") = 1
        /\ NumWith(Records(r), "executed") = 1
        /\ NumWith(Records(r), "rejected") = 1
        /\ Pack(r).limits.calls_used = 1
        /\ Pack(r).limits.max_calls = 1

FallbackReasons ==
    {"output_parsing_failed", "json_decode_error", "parser_unexpected_error"}

\* the decision is the fallback: only action no_tools and a reason code
IsFallback(d) ==
    /\ DOMAIN d = {"action", "reason"}
    /\ d["action"] = Str("no_tools")
    /\ d["reason"].kind = "str"
    /\ d["reason"].str \in FallbackReasons

\* the text has a '{' with a '}' somewhere after it
HasBracePair(t) ==
    \E i, j \in DOMAIN t : i < j /\ t[i] = "{" /\ t[j] = "}"

\* C15: parse_steward_output returns, for every text, a decision with an
\* action field; when the text has no '{' followed by a '}', or what is
\* extracted from it does not decode, the decision is action no_tools with a
\* reason code.
C15_ParserAlwaysDecides ==
    decision # NoDecision =>
        /\ "action" \in DOMAIN decision
        /\ ~HasBracePair(text) => IsFallback(decision)
        /\ LET json_str == _extract_json_string(_strip_markdown(text))
           IN  (json_str = NoJson \/ ~json_loads(json_str).ok) =>
                   IsFallback(decision)

\* a fenced object that does not decode
C15_Witness ==
    /\ decision = Fallback("json_decode_error")
    /\ Cardinality(Positions(text, Fence)) = 2
    /\ \E i \in DOMAIN text : text[i] = "action:"

\* C16 (as stated): the action of the returned decision is use_tools or
\* no_tools.
C16_ActionIsUseOrNoTools ==
    decision # NoDecision =>
        /\ "action" \in DOMAIN decision
        /\ decision["action"] \in {Str("use_tools"), Str("no_tools")}

\* the positions of the registrations made for a name
RegistrationsOf(name) == {i \in DOMAIN registered : registered[i].name = name}

\* C17: get_implementation and get_definition return what the last
\* registration of the name gave, and both return None exactly for the names
\* never registered.
C17_LastWriteWins ==
    \A name \in ToolNames :
        /\ RegistrationsOf(name) = {} =>
              /\ get_implementation(name) = None
              /\ get_definition(name) = NoDefinition
        /\ RegistrationsOf(name) # {} =>
              /\ get_implementation(name) =
                    registered[Max(RegistrationsOf(name))].func
              /\ get_definition(name) =
                    registered[Max(RegistrationsOf(name))].definition
        /\ get_implementation(name) = None <=> get_definition(name) = NoDefinition

\* a name registered twice with different handlers and descriptions, and a
\* name never registered
C17_Witness ==
    /\ \E i, j \in DOMAIN registered :
          /\ i < j
          /\ registered[i].name = registered[j].name
          /\ registered[i].func # registered[j].func
          /\ registered[i].definition # registered[j].definition
          /\ get_implementation(registered[j].name) = registered[j].func
    /\ \E name \in ToolNames : RegistrationsOf(name) = {}

\* C18 (as stated): the handler invocations of a run never exceed
\* max_calls_per_run.
C18_InvocationsWithinBudget ==
    \A r \in RunIds : HandlerInvocations(r) <= cfg[r].max_calls_per_run

\* C18 (amended): a handler is invoked only while fewer than
\* max_calls_per_run calls were executed, the invocations that returned ok
\* never exceed max_calls_per_run, the invocations exceed it by at most the
\* number of those that returned ok = false or raised, and there is at most
\* one invocation per input call.
C18_OkInvocationsWithinBudget ==
    \A r \in RunIds :
        /\ pc[r] = "await" => calls_executed_count[r] < cfg[r].max_calls_per_run
        /\ Cardinality({i \in DOMAIN audit[r] : audit[r][i].origin = "handler_ok"})
              <= cfg[r].max_calls_per_run
        /\ HandlerInvocations(r) <=
              cfg[r].max_calls_per_run
              + Cardinality({i \in DOMAIN audit[r] :
                                audit[r][i].origin \in {"handler_err", "handler_raise"}})
        /\ HandlerInvocations(r) <= Len(calls[r])
        /\ \A i, j \in DOMAIN Records(r) :
              i # j => Records(r)[i].call_id # Records(r)[j].call_id

\* three invocations under a budget of one: two failed, the third returned ok
C18_Witness ==
    \E r \in RunIds :
        /\ cfg[r].max_calls_per_run = 1
        /\ Len(Records(r)) = 3
        /\ audit[r][1].origin = "handler_err"
        /\ audit[r][2].origin = "handler_raise"
        /\ audit[r][3].origin = "handler_ok"

\* C19 (as stated): a call that passed the budget, allowlist and registry
\* checks and was not served from the cache had its handler invoked.
C19_AdmittedMissInvokesHandler ==
    \A r \in RunIds : \A i \in DOMAIN Records(r) :
        audit[r][i].origin \notin {"budget", "allowlist", "registry", "cache"} =>
            audit[r][i].origin \in HandlerOrigins

\* C20: a rejected record has the reason of the first failing check: budget
\* exceeded when max_calls_per_run calls were executed before it, else
\* access_denied when the tool is outside the allowlist, else tool_not_found,
\* and then the tool is unregistered; a record that is not rejected passed
\* all three checks.
C20_FirstFailingCheck ==
    \A r \in RunIds : \A i \in DOMAIN Records(r) :
        LET rec == Records(r)[i]
            over == ExecutedBefore(r, i - 1) >= cfg[r].max_calls_per_run
            denied == NotAllowlisted(r, rec.tool_name)
            missing == rec.tool_name \notin DOMAIN _implementations
        IN  /\ rec.status = "rejected" <=> (over \/ denied \/ missing)
            /\ rec.status = "rejected" =>
                  rec.rejection_reason =
                      IF over THEN "budget_exceeded"
                      ELSE IF denied THEN "access_denied"
                      ELSE "tool_not_found"
            /\ rec.rejection_reason = "tool_not_found" =>
                  ~over /\ ~denied /\ missing

\* an unregistered tool outside the allowlist: access_denied while budget is
\* left, budget_exceeded after it is used up
C20_Witness ==
    \E r \in RunIds : \E i, j \in DOMAIN Records(r) :
        /\ i < j
        /\ Records(r)[i].tool_name \notin DOMAIN _implementations
        /\ Records(r)[j].tool_name \notin DOMAIN _implementations
        /\ NotAllowlisted(r, Records(r)[i].tool_name)
        /\ NotAllowlisted(r, Records(r)[j].tool_name)
        /\ Records(r)[i].rejection_reason = "access_denied"
        /\ Records(r)[j].rejection_reason = "budget_exceeded"

\* C21: only successful outcomes are cached.  Every cache entry holds an ok
\* result that a handler returned for that key, no entry holds the result of
\* a call whose record is failed, a record served from the cache is executed
\* and was preceded by a successful return still within its TTL, and an
\* admitted call that follows a failed call of the same tool and arguments
\* in its run, with no such return for the key, invokes the handler again.
C21_OnlySuccessCached ==
    /\ \A k \in DOMAIN cache :
          /\ cache[k].res.ok
          /\ \E s \in success_log : s.key = k /\ s.call_id = cache[k].res.id
    /\ \A r \in RunIds : \A i \in DOMAIN Records(r) :
          /\ Records(r)[i].status = "failed" =>
                \A k \in DOMAIN cache : cache[k].res.id # Records(r)[i].call_id
          /\ audit[r][i].origin = "cache" =>
                Records(r)[i].status = "executed" /\ audit[r][i].prior_live
          /\ \A j \in DOMAIN Records(r) :
                (/\ i < j
                 /\ audit[r][i].origin \in {"handler_err", "handler_raise"}
                 /\ CallOf(r, Records(r)[j]).name = CallOf(r, Records(r)[i]).name
                 /\ CallOf(r, Records(r)[j]).arguments
                       = CallOf(r, Records(r)[i]).arguments
                 /\ audit[r][j].origin \in HandlerOrigins \cup {"cache"}
                 /\ ~audit[r][j].prior_live)
                => audit[r][j].origin \in HandlerOrigins

\* a handler failed (returned not ok, or raised) and the next call of the
\* run, for the same tool and arguments, found no entry and invoked the
\* handler again
C21_Witness ==
    \E r \in RunIds : \E i, j \in DOMAIN Records(r) :
        /\ i < j
        /\ audit[r][i].origin \in {"handler_err", "handler_raise"}
        /\ CallOf(r, Records(r)[j]).name = CallOf(r, Records(r)[i]).name
        /\ CallOf(r, Records(r)[j]).arguments = CallOf(r, Records(r)[i]).arguments
        /\ audit[r][j].origin \in HandlerOrigins
        /\ audit[r][j].seen = "absent"
        /\ DOMAIN cache = {}

\* cache hits of all runs on the key
HitsOn(k) ==
    {<<r, i>> \in RunIds \X (1..MaxCalls + 1) :
        /\ i \in DOMAIN audit[r]
        /\ audit[r][i].origin = "cache"
        /\ ~KeyRaises(CallOf(r, Records(r)[i]))
        /\ CacheKey(CallOf(r, Records(r)[i])) = k}

\* C22: an entry's expiry is its insertion time plus 600 seconds when the
\* tool name contains "search" and plus 300 seconds otherwise; a step that
\* keeps the entry (a hit included) keeps its expiry; a lookup serves the
\* entry only strictly before the expiry, and a lookup at or after the
\* expiry serves nothing and goes to the handler.
C22_ExpiryFixedAtInsertion ==
    [][/\ \A k \in DOMAIN cache' :
             \E s \in success_log' :
                 /\ s.key = k
                 /\ s.call_id = cache'[k].res.id
                 /\ cache'[k].expire_at =
                       s.at + (IF ContainsSearch(k[1]) THEN 600 ELSE 300)
       /\ \A k \in DOMAIN cache \cap DOMAIN cache' :
             cache'[k].res.id = cache[k].res.id =>
                 cache'[k].expire_at = cache[k].expire_at
       /\ \A r \in RunIds :
             /\ (/\ Len(audit'[r]) > Len(audit[r])
                 /\ audit'[r][Len(audit'[r])].origin = "cache") =>
                    /\ CacheKey(Cur(r)) \in DOMAIN cache
                    /\ now < cache[CacheKey(Cur(r))].expire_at
                    /\ cache'[CacheKey(Cur(r))].expire_at
                          = cache[CacheKey(Cur(r))].expire_at
             /\ (/\ Admitted(r)
                 /\ ~KeyRaises(Cur(r))
                 /\ CacheKey(Cur(r)) \in DOMAIN cache
                 /\ now >= cache[CacheKey(Cur(r))].expire_at
                 /\ RunStepped(r)) =>
                    /\ audit'[r] = audit[r]
                    /\ pc'[r] = "await"
      ]_vars

\* an entry inserted earlier has been hit twice and still expires at its
\* insertion time plus its TTL
C22_Witness ==
    \E k \in DOMAIN cache : \E s \in success_log :
        /\ s.key = k
        /\ s.call_id = cache[k].res.id
        /\ s.at < now
        /\ cache[k].expire_at = s.at + TTL(k[1])
        /\ Cardinality(HitsOn(k)) >= 2

\* C23 (as stated): a ToolResult is not modified after it has been produced:
\* every stored result, its metadata included, is exactly what the handler
\* returned: an ok result of that call, with no cached mark.
C23_StoredResultUnmodified ==
    \A k \in DOMAIN cache :
        cache[k].res =
            ToolResult(cache[k].res.id, TRUE, cache[k].res.data_len, "", FALSE)

\* C24: in every returned pack limits_triggered has no duplicates (it holds
\* each of the two limit names at most once, whatever the number of appends),
\* holds max_calls_per_run exactly when a record has rejection reason
\* budget_exceeded, and holds max_evidence_size exactly when the loop stopped
\* because the evidence total had reached max_evidence_chars.
C24_LimitsTriggered ==
    \A r \in RunIds :
        Returned(r) =>
            LET lt == Pack(r).limits.limits_triggered
            IN  /\ lt \subseteq {"max_calls_per_run", "max_evidence_size"}
                /\ Cardinality(lt) <= Len(limits_triggered[r])
                /\ Cardinality(lt) =
                      (IF "max_calls_per_run" \in lt THEN 1 ELSE 0)
                      + (IF "max_evidence_size" \in lt THEN 1 ELSE 0)
                /\ "max_calls_per_run" \in lt <=>
                      \E i \in DOMAIN Records(r) :
                          Records(r)[i].rejection_reason = "budget_exceeded"
                /\ "max_evidence_size" \in lt <=>
                      /\ Records(r) # <<>>
                      /\ Records(r)[Len(Records(r))].status = "executed"
                      /\ total_evidence_chars[r] >= cfg[r].max_evidence_chars

\* a returned pack names max_calls_per_run once although two calls were
\* rejected over budget and the limit was appended for each
C24_Witness ==
    \E r \in RunIds :
        /\ Returned(r)
        /\ Len(limits_triggered[r]) >= 2
        /\ NumWith(Records(r), "rejected") >= 2
        /\ Pack(r).limits.limits_triggered = {"max_calls_per_run"}

\* index of the last executed record of the run (0 when there is none)
LastExecuted(r) ==
    Max({0} \cup {i \in DOMAIN Records(r) : Records(r)[i].status = "executed"})

\* C25: every raw_truncated payload is at most 2000 characters plus the
\* 15-character marker, and in a returned pack with at least two executed
\* records the payloads of the executed records before the last one sum to
\* less than max_evidence_chars, so that the evidence total is less than the
\* cap plus one truncated payload.
C25_BoundedOvershoot ==
    \A r \in RunIds :
        /\ \A i \in DOMAIN Records(r) : Records(r)[i].raw_len <= 2000 + 15
        /\ (Returned(r) /\ NumWith(Records(r), "executed") >= 2) =>
              /\ EvidenceSum(SubSeq(Records(r), 1, LastExecuted(r) - 1))
                    < cfg[r].max_evidence_chars
              /\ EvidenceSum(Records(r)) - cfg[r].max_evidence_chars
                    < Records(r)[LastExecuted(r)].raw_len
              /\ EvidenceSum(Records(r)) < cfg[r].max_evidence_chars + 2000 + 15

\* a returned pack with two executed records, the first a truncated
\* over-long payload, whose total is past the cap
C25_Witness ==
    \E r \in RunIds :
        /\ Returned(r)
        /\ NumWith(Records(r), "executed") >= 2
        /\ \E i \in 1..(LastExecuted(r) - 1) :
              /\ Records(r)[i].status = "executed"
              /\ Records(r)[i].raw_len = TruncateAt + TruncMarkerLen
        /\ EvidenceSum(Records(r)) > cfg[r].max_evidence_chars

\* C26: with every awaited handler eventually returning or raising, a started
\* execute_tool_calls eventually returns its pack; no input call has two
\* records, the call being processed has none yet, and the handlers invoked
\* are at most the input calls, so no call, failed ones included, is invoked
\* a second time.
C26_TerminatesWithoutRetry ==
    /\ \A r \in SeqRuns : (pc[r] \in {"loop", "await"}) ~> Returned(r)
    /\ [](\A r \in SeqRuns :
            /\ \A i, j \in DOMAIN Records(r) :
                  i # j => Records(r)[i].call_id # Records(r)[j].call_id
            /\ pc[r] \in {"loop", "await"} =>
                  \A i \in DOMAIN Records(r) : Records(r)[i].call_id # Cur(r).id
            /\ HandlerInvocations(r) <= Len(calls[r])
            /\ Len(Records(r)) <= Len(calls[r]))

\* a returned run in which a handler raised (the synthesized retryable
\* tool_error) and later calls were processed, each call having one record
C26_Witness ==
    \E r \in SeqRuns :
        /\ Returned(r)
        /\ Len(Records(r)) = Len(calls[r])
        /\ \E i \in DOMAIN Records(r) :
              /\ audit[r][i].origin = "handler_raise"
              /\ i < Len(Records(r))
        /\ \E i \in DOMAIN Records(r) : audit[r][i].origin = "handler_err"

\* the object json.loads decodes from the text, when there is one
DecodedObject(t) == json_loads(_extract_json_string(_strip_markdown(t)))

HasDecodedObject(t) ==
    _extract_json_string(_strip_markdown(t)) # NoJson /\ DecodedObject(t).ok

\* C27 (as stated): when the decoded object has no action field, the decision
\* is use_tools exactly when the object has a non-empty calls array, and
\* otherwise no_tools with reason missing_action_field, an empty calls array
\* included.
C27_MissingActionInference ==
    (/\ decision # NoDecision
     /\ HasDecodedObject(text)
     /\ "action" \notin DOMAIN DecodedObject(text).dict) =>
        LET data == DecodedObject(text).dict
        IN  IF /\ "calls" \in DOMAIN data
               /\ data["calls"].kind = "list"
               /\ data["calls"].len > 0
            THEN decision["action"] = Str("use_tools")
            ELSE /\ decision["action"] = Str("no_tools")
                 /\ "reason" \in DOMAIN decision
                 /\ decision["reason"] = Str("missing_action_field")

\* the places <<i, j>> where the text holds a valid JSON object with an
\* action member, from token i to token j
DecisionObjects(t) ==
    {p \in (1..Len(t)) \X (1..Len(t)) :
        /\ p[1] < p[2]
        /\ t[p[1]] = "{"
        /\ t[p[2]] = "}"
        /\ json_loads(SubSeq(t, p[1], p[2])).ok
        /\ "action" \in DOMAIN json_loads(SubSeq(t, p[1], p[2])).dict}

ActionAt(t, p) == json_loads(SubSeq(t, p[1], p[2])).dict["action"]

\* the text around the object at p has no '{' before it and no '}' after it,
\* and the text has fewer than two fences or its first two fences enclose
\* the object
ProseKeepsObject(t, p) ==
    /\ \A k \in 1..(p[1] - 1) : t[k] # "{"
    /\ \A k \in (p[2] + 1)..Len(t) : t[k] # "}"
    /\ LET fences == Positions(t, Fence)
       IN  \/ Cardinality(fences) < 2
           \/ /\ Min(fences) < p[1]
              /\ Min(fences \ {Min(fences)}) > p[2]

\* C28 (as stated): for a text made of a valid decision object with
\* arbitrary text before and/or after it, the decision has the action of
\* that object.
C28_ProseTolerance ==
    decision # NoDecision =>
        \A p \in DecisionObjects(text) : decision["action"] = ActionAt(text, p)

\* C28 (amended): for a text made of a valid decision object with text
\* before and/or after it, where no '{' comes before the object, no '}'
\* comes after it, and the text has fewer than two markdown fences or its
\* first two fences enclose the object, the decision has the action of that
\* object.
C28_ProseToleranceOutsideBraces ==
    decision # NoDecision =>
        \A p \in DecisionObjects(text) :
            ProseKeepsObject(text, p) => decision["action"] = ActionAt(text, p)

\* a decision was returned for an object inside a pair of fences, with prose
\* before the first fence and after the second
C28_Witness ==
    /\ decision # NoDecision
    /\ \E p \in DecisionObjects(text) :
          /\ ProseKeepsObject(text, p)
          /\ Cardinality(Positions(text, Fence)) = 2
          /\ text[1] = Prose
          /\ text[Len(text)] = Prose
          /\ decision["action"] = Str("use_tools")
          /\ "calls" \in DOMAIN decision

\* the cleaned text: what _strip_markdown returns
Cleaned(t) == _strip_markdown(t)

\* the substring of the cleaned text from its first '{' to its last '}'
\* decodes
SubstringDecodes(t) ==
    LET s == strip(Cleaned(t))
    IN  json_loads(SubSeq(s, Min(Positions(s, "{")), Max(Positions(s, "}")))).ok

HasReason(d, reason) ==
    /\ d["action"] = Str("no_tools")
    /\ "reason" \in DOMAIN d
    /\ d["reason"] = Str(reason)

\* C29 (as stated): the decision is no_tools with reason output_parsing_failed
\* exactly when the cleaned text has no '{' followed later by a '}', and
\* no_tools with reason json_decode_error exactly when it has such a pair
\* but the substring from the first '{' to the last '}' is not valid JSON.
C29_FallbackReasons ==
    decision # NoDecision =>
        /\ HasReason(decision, "output_parsing_failed")
              <=> ~HasBracePair(Cleaned(text))
        /\ HasReason(decision, "json_decode_error")
              <=> (HasBracePair(Cleaned(text)) /\ ~SubstringDecodes(text))

\* C29 (amended): when the cleaned text has no '{' followed later by a '}'
\* the decision is no_tools with reason output_parsing_failed; when it has
\* such a pair but the substring from the first '{' to the last '}' is not
\* valid JSON the decision is no_tools with reason json_decode_error; and
\* when the substring is valid JSON the decision has one of these two
\* reasons only if the decoded object itself carries action no_tools and
\* that reason.
C29_FallbackReasonsUnlessEchoed ==
    decision # NoDecision =>
        /\ ~HasBracePair(Cleaned(text)) =>
              decision = Fallback("output_parsing_failed")
        /\ (HasBracePair(Cleaned(text)) /\ ~SubstringDecodes(text)) =>
              decision = Fallback("json_decode_error")
        /\ (HasBracePair(Cleaned(text)) /\ SubstringDecodes(text)) =>
              \A reason \in {"output_parsing_failed", "json_decode_error"} :
                  HasReason(decision, reason) =>
                      /\ decision = DecodedObject(text).dict
                      /\ HasReason(DecodedObject(text).dict, reason)

\* a decision with reason json_decode_error for a cleaned text, taken out of
\* a pair of fences, whose braces pair up around something that does not
\* decode
C29_Witness ==
    /\ decision = Fallback("json_decode_error")
    /\ HasBracePair(Cleaned(text))
    /\ ~SubstringDecodes(text)
    /\ Cleaned(text) # text

\* the entries of the run's decision from which a ToolCall can be built: a
\* name is there and the priority is high, normal or low
WellFormed(r) ==
    {k \in DOMAIN parsed_data[r].calls :
        /\ parsed_data[r].calls[k].name # None
        /\ parsed_data[r].calls[k].priority \in {"high", "normal", "low"}}

\* the position among the handed calls of well-formed entry k
HandedAs(r, k) == Cardinality({m \in WellFormed(r) : m <= k})

\* C30 (as stated): when the decision has action use_tools the router is
\* handed one ToolCall per entry of the decision's calls list, and the
\* returned pack has a record for every entry.
C30_EveryProposedCallHasRecord ==
    \A r \in RunIds :
        (parsed_data[r].action = "use_tools" /\ pc[r] # "idle") =>
            /\ Len(calls[r]) = Len(parsed_data[r].calls)
            /\ Returned(r) => Len(Records(r)) = Len(parsed_data[r].calls)

\* C30 (amended): when the decision has action use_tools the router is
\* handed one ToolCall per entry of the calls list from which a ToolCall can
\* be built, in the order of the list and with the entry's name, arguments
\* and priority; an entry without a name or with an unknown priority is
\* skipped; and the returned pack has exactly one record for each handed
\* call and none for a skipped entry.
C30_EveryWellFormedCallHasRecord ==
    \A r \in RunIds :
        (parsed_data[r].action = "use_tools" /\ pc[r] # "idle") =>
            /\ Len(calls[r]) = Cardinality(WellFormed(r))
            /\ \A k \in WellFormed(r) :
                  /\ calls[r][HandedAs(r, k)].name = parsed_data[r].calls[k].name
                  /\ calls[r][HandedAs(r, k)].arguments
                        = parsed_data[r].calls[k].arguments
                  /\ calls[r][HandedAs(r, k)].priority
                        = parsed_data[r].calls[k].priority
            /\ Returned(r) =>
                  /\ Len(Records(r)) = Cardinality(WellFormed(r))
                  /\ \A k \in WellFormed(r) :
                        Cardinality({i \in DOMAIN Records(r) :
                            /\ Records(r)[i].call_id = <<r, HandedAs(r, k)>>
                            /\ Records(r)[i].tool_name
                                  = parsed_data[r].calls[k].name}) = 1

\* a returned phase whose decision held an entry with an unknown priority
\* and one without a name, each followed by a well-formed entry: the pack
\* has the records of the well-formed entries only
C30_Witness ==
    \E r \in RunIds :
        /\ Returned(r)
        /\ parsed_data[r].action = "use_tools"
        /\ \E k \in DOMAIN parsed_data[r].calls :
              parsed_data[r].calls[k].priority = "urgent" /\ k + 1 \in WellFormed(r)
        /\ \E k \in DOMAIN parsed_data[r].calls :
              parsed_data[r].calls[k].name = None /\ k + 1 \in WellFormed(r)
        /\ Len(Records(r)) = 2
        /\ Len(parsed_data[r].calls) = 4

====
